---------------------------- MODULE Spec2Model ----------------------------
(***************************************************************************)
(* Model of liquidator's parallel FASTA motif scanner                      *)
(* (src/liquidator/fasta_scorer.cpp): process_fasta loads the file, writes *)
(* the header, and runs Scorer::score over the ranges that                 *)
(* tbb::parallel_for hands to the worker threads; every Scorer drains its  *)
(* stringstream into the shared output in its destructor.                  *)
(*                                                                         *)
(* Bytes are one-character strings.  Positions are 0-based as in the       *)
(* source (s[i+1] is the byte at position i).  size_t and int keep their   *)
(* wrap-around, at the scaled widths SizeBits and IntBits; grainsize is    *)
(* scaled with them (8400 in the source) so that ranges smaller than a     *)
(* record occur in buffers of a few bytes.                                 *)
(***************************************************************************)
EXTENDS Integers, Sequences, FiniteSets, TLC

\* ------------------------------------------------------------------ bounds
\* Number of lines of an input file (lines are joined by line breaks).
MaxLines == 3
\* Width of size_t in the model: npos = 2^SizeBits - 1.
SizeBits == 8
\* Width of int in the model (tbb::blocked_range<int>).
IntBits == 5

\* --------------------------------------------------------------- constants
\* const size_t grainsize = 8400, scaled to the model's buffers.
grainsize == 3
\* if (pvalue < 0.001), in units of 10^-4.
PvalueThreshold == 10

NL == "\n"
GT == ">"

RECURSIVE Pow2(_)
Pow2(n) == IF n = 0 THEN 1 ELSE 2 * Pow2(n - 1)

SizeMod == Pow2(SizeBits)
\* std::string::npos
NPOS == SizeMod - 1

\* unsigned (size_t) arithmetic
SzAdd(a, b) == (a + b) % SizeMod

\* conversion of a size_t to int (blocked_range<int>(0, fasta.size(), ...))
ToInt(n) ==
    LET m == n % Pow2(IntBits)
    IN  IF m >= Pow2(IntBits - 1) THEN m - Pow2(IntBits) ELSE m

Min(S) == CHOOSE x \in S : \A y \in S : x <= y

\* ------------------------------------------------------------------ inputs
\* The lines a file is made of: an empty line, a header with an empty name,
\* a header with a name, a sequence.
LineChoices == { <<>>, <<GT>>, <<GT, "A">>, <<"A", "C">> }

RECURSIVE Join(_)
Join(ls) ==
    IF Len(ls) = 0 THEN <<>>
    ELSE IF Len(ls) = 1 THEN ls[1]
    ELSE ls[1] \o <<NL>> \o Join(Tail(ls))

\* Files of at most MaxLines lines, with or without a line break after the
\* last line.
Files ==
    UNION { { Join(ls) \o t : ls \in [1..n -> LineChoices],
                              t \in { <<>>, <<NL>> } } : n \in 0..MaxLines }

RECURSIVE Repeat(_, _)
Repeat(s, k) == IF k = 0 THEN <<>> ELSE s \o Repeat(s, k - 1)

OneRecord == <<GT, "A", NL, "A", "C", NL>>

\* Files whose size does not fit the int of the range: one whose size
\* converts to a negative int, one whose size wraps to a small positive int.
BigFiles ==
    { Repeat(OneRecord, Pow2(IntBits - 1) \div Len(OneRecord) + 1),
      Repeat(OneRecord, Pow2(IntBits) \div Len(OneRecord) + 1) }

\* The matrix list handed to process_fasta.  weights are abstracted to the
\* motif they favour; pvalues is indexed by the scaled score (+1), in units
\* of 10^-4: 5000 is 0.5, 10 is exactly 0.001, 1 is 0.0001.  A window of m2
\* that is not its motif has a p-value of exactly 0.001.  m2 and m3 are
\* reverse-complement matrices: m3 scores the bytes AC, the reverse
\* complement of its pattern GT.
Matrices ==
    << [name |-> "m1", motif |-> <<"A", "C">>, pvalues |-> <<5000, 10, 1>>,
        rc |-> FALSE],
       [name |-> "m2", motif |-> <<"C">>, pvalues |-> <<10, 1>>,
        rc |-> TRUE],
       [name |-> "m3", motif |-> <<"A", "C">>, pvalues |-> <<5000, 5000, 1>>,
        rc |-> TRUE] >>

\* matrix.matrix().size()
MatrixSize(m) == Len(m.motif)

\* detail::score(matrix, fasta, begin, end): scaled integer score of the
\* window [b, e) of s.
DetailScore(m, s, b, e) ==
    Cardinality({ i \in b..(e - 1) : s[i + 1] = m.motif[i - b + 1] })

\* complement(char)
complement(c) ==
    CASE c = "A" -> "T"
      [] c = "T" -> "A"
      [] c = "C" -> "G"
      [] c = "G" -> "C"
      [] OTHER -> c

\* ------------------------------------------------------------ Scorer::score
\* std::string::find_first_of(c, pos)
find_first_of(s, c, pos) ==
    LET hits == { i \in 0..(Len(s) - 1) : i >= pos /\ s[i + 1] = c }
    IN  IF hits = {} THEN NPOS ELSE Min(hits)

\* A rendering that complements the window without reversing it.
RenderedUnreversed(m, s, b) ==
    LET W == MatrixSize(m)
    IN  IF m.rc
        THEN [k \in 1..W |-> complement(s[(b + k - 1) + 1])]
        ELSE SubSeq(s, b + 1, b + W)

\* The matched sequence as printed: reversed and complemented for a
\* reverse-complement matrix (i runs from begin+size-1 down to begin),
\* verbatim otherwise.
Rendered(m, s, b) ==
    LET W == MatrixSize(m)
    IN  IF m.rc
        THEN [k \in 1..W |-> complement(s[(b + W - k) + 1])]
        ELSE SubSeq(s, b + 1, b + W)

\* One line of ss for a window with pvalue < 0.001.
MatchLine(m, s, name_begin, name_end, sequence_begin, b) ==
    LET e == b + MatrixSize(m)
        scaled_score == DetailScore(m, s, b, e)
    IN  [ pattern |-> m.name,
          seqname |-> SubSeq(s, name_begin + 1, name_end),
          start   |-> b - sequence_begin + 1,
          stop    |-> e - sequence_begin,
          strand  |-> IF m.rc THEN "-" ELSE "+",
          pvalue  |-> m.pvalues[scaled_score + 1],
          matched |-> Rendered(m, s, b) ]

\* A threshold that lets a p-value of exactly 0.001 through.
SignificantInclusive(m, s, b) ==
    m.pvalues[DetailScore(m, s, b, b + MatrixSize(m)) + 1] <= PvalueThreshold

\* if (pvalue < 0.001)
Significant(m, s, b) ==
    m.pvalues[DetailScore(m, s, b, b + MatrixSize(m)) + 1] < PvalueThreshold

\* The window begins of one matrix over [sequence_begin, sequence_end), in
\* loop order, for sequence_end inside the buffer: begin = sequence_begin,
\* end = begin + size, ++begin, ++end while end <= sequence_end.
WindowBegins(m, sequence_begin, sequence_end) ==
    LET n == IF sequence_begin + MatrixSize(m) <= sequence_end
             THEN sequence_end - sequence_begin - MatrixSize(m) + 1
             ELSE 0
    IN  [k \in 1..n |-> sequence_begin + k - 1]

RECURSIVE WindowLines(_, _, _, _, _, _)
WindowLines(m, s, name_begin, name_end, sequence_begin, begins) ==
    IF begins = <<>> THEN <<>>
    ELSE (IF Significant(m, s, Head(begins))
          THEN << MatchLine(m, s, name_begin, name_end, sequence_begin,
                            Head(begins)) >>
          ELSE <<>>)
         \o WindowLines(m, s, name_begin, name_end, sequence_begin,
                        Tail(begins))

\* The loops the other way round: for each window begin, every matrix from
\* the i-th on.
RECURSIVE MatricesAt(_, _, _, _, _, _, _)
MatricesAt(i, s, name_begin, name_end, sequence_begin, sequence_end, b) ==
    IF i > Len(Matrices) THEN <<>>
    ELSE (IF /\ b + MatrixSize(Matrices[i]) <= sequence_end
             /\ Significant(Matrices[i], s, b)
          THEN << MatchLine(Matrices[i], s, name_begin, name_end,
                            sequence_begin, b) >>
          ELSE <<>>)
         \o MatricesAt(i + 1, s, name_begin, name_end, sequence_begin,
                       sequence_end, b)

RECURSIVE WindowsFrom(_, _, _, _, _, _, _)
WindowsFrom(i, s, name_begin, name_end, sequence_begin, sequence_end, b) ==
    IF b >= sequence_end THEN <<>>
    ELSE MatricesAt(i, s, name_begin, name_end, sequence_begin,
                    sequence_end, b)
         \o WindowsFrom(i, s, name_begin, name_end, sequence_begin,
                        sequence_end, b + 1)

WindowMajorLines(i, s, name_begin, name_end, sequence_begin, sequence_end) ==
    WindowsFrom(i, s, name_begin, name_end, sequence_begin, sequence_end,
                sequence_begin)

\* for (const auto& matrix : matrices) { for (begin, end ...) { ... } }
RECURSIVE MatrixLines(_, _, _, _, _, _)
MatrixLines(i, s, name_begin, name_end, sequence_begin, sequence_end) ==
    IF i > Len(Matrices) THEN <<>>
    ELSE WindowLines(Matrices[i], s, name_begin, name_end, sequence_begin,
                     WindowBegins(Matrices[i], sequence_begin, sequence_end))
         \o MatrixLines(i + 1, s, name_begin, name_end, sequence_begin,
                        sequence_end)

\* The test made on a signed index, for which npos is -1.
NoHeaderBeforeSigned(name_begin, region_end) == ToInt(name_begin) >= region_end

\* if (name_begin >= region_end) break;  name_begin is npos when the buffer
\* has no '>' at or after the cursor.
NoHeaderBefore(name_begin, region_end) == name_begin >= region_end

\* One iteration of the while(true) loop of Scorer::score with the cursor
\* at region_begin.
\*   kind "break": no '>' before region_end.
\*   kind "ok":    the record with its '>' at header was scored, lines were
\*                 appended to ss and the cursor moves to next.
\*   kind "ub":    the iteration reads outside the buffer: sequence_end is
\*                 npos, so the window loop (end <= npos) never ends, or a
\*                 significant window prints a name of length npos-name_begin.
ScoreIteration(s, region_begin, region_end) ==
    LET found == find_first_of(s, GT, region_begin)
    IN  IF NoHeaderBefore(found, region_end) THEN [kind |-> "break"]
        ELSE
        LET name_begin     == SzAdd(found, 1)
            name_end       == find_first_of(s, NL, SzAdd(name_begin, 1))
            sequence_begin == SzAdd(name_end, 1)
            sequence_end   == find_first_of(s, NL, SzAdd(sequence_begin, 1))
        IN  IF sequence_end = NPOS
            THEN [kind |-> "ub", header |-> found,
                  sequence_begin |-> sequence_begin]
            ELSE
            LET significant ==
                    \E i \in 1..Len(Matrices) :
                        LET begins == WindowBegins(Matrices[i], sequence_begin,
                                                   sequence_end)
                        IN  \E k \in 1..Len(begins) :
                                Significant(Matrices[i], s, begins[k])
                lines == IF significant
                         THEN MatrixLines(1, s, name_begin, name_end,
                                          sequence_begin, sequence_end)
                         ELSE <<>>
            IN  IF name_end = NPOS /\ significant
                THEN [kind |-> "ub", header |-> found,
                      sequence_begin |-> sequence_begin]
                ELSE [kind |-> "ok", cursor |-> region_begin,
                      header |-> found,
                      name_begin |-> name_begin,
                      name_end |-> name_end,
                      sequence_begin |-> sequence_begin,
                      sequence_end |-> sequence_end,
                      lines |-> lines,
                      next |-> SzAdd(sequence_end, 1)]

\* What a read outside the buffer can end in: the process is killed, or the
\* thread never returns from score.
UBOutcomes == {"crash", "hang"}

\* A whole call of Scorer::score(region_begin, region_end): the iterations
\* of its loop from the cursor cur, in order.
\*   kind "return": the loop reached its break.
\*   kind "ub":     an iteration read outside the buffer.
\*   kind "loop":   the loop never ends.  The cursor moves backwards only
\*                  when name_end is npos (sequence_begin wraps to 0), and
\*                  then to the same place every time: at the second such
\*                  move the loop is known to repeat for ever.
\* its holds the iterations that scored a record; back tells whether the
\* cursor has moved backwards before.
RECURSIVE ScoreCall(_, _, _, _)
ScoreCall(s, cur, region_end, back) ==
    LET it == ScoreIteration(s, cur, region_end)
    IN  CASE it.kind = "break" -> [kind |-> "return", its |-> <<>>]
          [] it.kind = "ub"    -> [kind |-> "ub", its |-> <<>>]
          [] it.kind = "ok"    ->
                IF it.next <= cur /\ back
                THEN [kind |-> "loop", its |-> <<it>>]
                ELSE LET rest == ScoreCall(s, it.next, region_end,
                                           back \/ it.next <= cur)
                     IN  [kind |-> rest.kind, its |-> <<it>> \o rest.its]

\* The lines the iterations appended to ss, in order.
RECURSIVE LinesOf(_)
LinesOf(its) ==
    IF its = <<>> THEN <<>> ELSE Head(its).lines \o LinesOf(Tail(its))

\* ------------------------------------------------ tbb::blocked_range<int>
\* blocked_range::empty(): !(my_begin < my_end)
RangeEmpty(r) == ~(r[1] < r[2])

\* blocked_range::is_divisible(): my_grainsize < size()
IsDivisible(r) == grainsize < r[2] - r[1]

\* The splitting constructor: middle = begin + (end - begin) / 2.
SplitRange(r) ==
    LET middle == r[1] + (r[2] - r[1]) \div 2
    IN  { <<r[1], middle>>, <<middle, r[2]>> }

\* ------------------------------------------------------------------- state
Workers == {"w1", "w2"}

\* The Scorer objects of a run: the temporary of line 234, the copy of it
\* that the enumerable_thread_specific keeps as its exemplar, and one
\* thread-local copy per worker thread.
ScorerIds == {"temp", "exemplar"} \cup Workers

\* The header line of the output file, in the shape of a match line.
HeaderLine ==
    [ pattern |-> "#pattern name", seqname |-> <<>>, start |-> 0, stop |-> 0,
      strand |-> "strand", pvalue |-> 0, matched |-> <<>> ]

VARIABLES
    file,       \* the bytes of the file at fasta_file_path
    inOK,       \* whether fasta_file_path can be opened
    outOK,      \* whether output_file_path can be opened for writing
    pc,         \* where process_fasta is
    fasta,      \* const std::string fasta
    output,     \* the lines in the output file
    writeLog,   \* who executed "output << ...", in order (history)
    mutex,      \* the holder of output_mutex, or "free"
    alive,      \* the Scorer objects constructed and not yet destroyed
    ss,         \* each Scorer's stringstream, as its lines
    ranges,     \* the ranges of the parallel_for not yet run
    wk,         \* each worker thread: idle, or inside score with its cursor
    scored,     \* the records scored so far, with the region of the call (history)
    calls,      \* per header position, how often it was scored (history)
    dispatched, \* the ranges handed to score_fasta, with the thread (history)
    locks       \* who acquired output_mutex, in order (history)

vars == << file, inOK, outOK, pc, fasta, output, writeLog, mutex, alive, ss,
           ranges, wk, scored, calls, dispatched, locks >>

Idle == [st |-> "idle", rb |-> 0, re |-> 0]

\* The files on which a failure to open the input or the output is explored.
FailFiles == { f \in Files : Len(f) <= 2 * grainsize }

InitWith(files) ==
    /\ file \in files
    /\ inOK \in BOOLEAN
    /\ outOK \in BOOLEAN
    /\ (inOK /\ outOK) \/ file \in FailFiles
    /\ pc = "start"
    /\ fasta = <<>>
    /\ output = <<>>
    /\ writeLog = <<>>
    /\ mutex = "free"
    /\ alive = {}
    /\ ss = [s \in ScorerIds |-> <<>>]
    /\ ranges = {}
    /\ wk = [w \in Workers |-> Idle]
    /\ scored = {}
    /\ calls = <<>>
    /\ dispatched = {}
    /\ locks = <<>>

Init == InitWith(Files)

\* ----------------------------------------------------------------- actions
\* get_file_contents: throws when the file cannot be opened.
GetFileContents ==
    /\ pc = "start"
    /\ \/ /\ inOK
          /\ fasta' = file
          /\ pc' = "loaded"
       \/ /\ ~inOK
          /\ fasta' = fasta
          /\ pc' = "failed"
    /\ UNCHANGED locks
    /\ UNCHANGED << file, inOK, outOK, output, writeLog, mutex, alive, ss,
                    ranges, wk, scored, calls, dispatched >>

\* What "output << text" leaves in the file: nothing when the stream failed
\* to open.
StreamWrite(out, text) == IF outOK THEN out \o text ELSE out

\* A header forgotten.
HeaderTextMissing == <<>>

\* "#pattern name\tsequence name\t...\tmatched sequence" << std::endl
HeaderText == <<HeaderLine>>

\* std::ofstream output(output_file_path); output << "#pattern name..." ;
\* std::mutex output_mutex;  The stream's state is not tested.
OpenOutput ==
    /\ pc = "loaded"
    /\ output' = StreamWrite(output, HeaderText)
    /\ writeLog' = Append(writeLog, "header")
    /\ pc' = "opened"
    /\ UNCHANGED locks
    /\ UNCHANGED << file, inOK, outOK, fasta, mutex, alive, ss, ranges, wk,
                    scored, calls, dispatched >>

\* Scorers scorers((Scorer(matrices, fasta, output, output_mutex)));
\* the temporary and the exemplar copy exist; the temporary is destroyed at
\* the end of the statement (ScorerDtorLock, ScorerDtorWrite).
ConstructScorers ==
    /\ pc = "opened"
    /\ alive' = {"temp", "exemplar"}
    /\ pc' = "constructed"
    /\ UNCHANGED locks
    /\ UNCHANGED << file, inOK, outOK, fasta, output, writeLog, mutex, ss,
                    ranges, wk, scored, calls, dispatched >>

\* Which Scorer the main thread may destroy now.
Destroyable(s) ==
    /\ s \in alive
    /\ \/ pc = "constructed" /\ s = "temp"
       \/ pc = "teardown"

\* ~Scorer: std::lock_guard<std::mutex> lock(output_mutex);
ScorerDtorLock(s) ==
    /\ Destroyable(s)
    /\ mutex = "free"
    /\ mutex' = s
    /\ locks' = Append(locks, s)
    /\ UNCHANGED << file, inOK, outOK, pc, fasta, output, writeLog, alive, ss,
                    ranges, wk, scored, calls, dispatched >>

\* A drain that writes the lines last to first.
RECURSIVE StrReversed(_)
StrReversed(text) ==
    IF text = <<>> THEN <<>> ELSE StrReversed(Tail(text)) \o <<Head(text)>>

\* ss.str()
Str(text) == text

\* ~Scorer: output << ss.str(); then the lock_guard releases the mutex and
\* the object is gone.
ScorerDtorWrite(s) ==
    /\ mutex = s
    /\ output' = StreamWrite(output, Str(ss[s]))
    /\ writeLog' = Append(writeLog, s)
    /\ mutex' = "free"
    /\ alive' = alive \ {s}
    /\ UNCHANGED locks
    /\ UNCHANGED << file, inOK, outOK, pc, fasta, ss, ranges, wk, scored,
                    calls, dispatched >>

\* tbb::parallel_for(tbb::blocked_range<int>(0, fasta.size(), grainsize), ...):
\* nothing is run for an empty range.
ParallelFor ==
    /\ pc = "constructed"
    /\ "temp" \notin alive
    /\ LET range == <<0, ToInt(Len(fasta))>>
       IN  ranges' = IF RangeEmpty(range) THEN {} ELSE {range}
    /\ pc' = "parallel_for"
    /\ UNCHANGED locks
    /\ UNCHANGED << file, inOK, outOK, fasta, output, writeLog, mutex, alive,
                    ss, wk, scored, calls, dispatched >>

\* auto_partitioner: a divisible range may be split in two.
Split(r) ==
    /\ pc = "parallel_for"
    /\ r \in ranges
    /\ IsDivisible(r)
    /\ ranges' = (ranges \ {r}) \cup SplitRange(r)
    /\ UNCHANGED locks
    /\ UNCHANGED << file, inOK, outOK, pc, fasta, output, writeLog, mutex,
                    alive, ss, wk, scored, calls, dispatched >>

\* One Scorer that every thread is given.
LocalShared(w) == "w1"

\* scorers.local() on thread w: the Scorer of that thread, copied from the
\* exemplar when the thread calls local() for the first time.
Local(w) == w

\* The threads are named in the order of their first scorers.local() call.
FirstCaller(w) == w = "w2" => "w1" \in alive

\* score_fasta(range.begin(), range.end(), scorers) on worker thread w:
\* scorers.local() copies the exemplar on the thread's first call (the copy
\* constructor leaves ss empty), and scorer.score is entered.
ScoreFasta(w, r) ==
    /\ pc = "parallel_for"
    /\ r \in ranges
    /\ wk[w].st = "idle"
    /\ FirstCaller(w)
    /\ ranges' = ranges \ {r}
    /\ alive' = alive \cup {Local(w)}
    /\ wk' = [wk EXCEPT ![w] = [st |-> "score", rb |-> r[1], re |-> r[2]]]
    /\ dispatched' = dispatched \cup { [w |-> w, rb |-> r[1], re |-> r[2]] }
    /\ UNCHANGED locks
    /\ UNCHANGED << file, inOK, outOK, pc, fasta, output, writeLog, mutex, ss,
                    scored, calls >>

\* calls[p] is "once" or "again".
Bump(c, p) ==
    IF p \in DOMAIN c THEN [c EXCEPT ![p] = "again"] ELSE c @@ (p :> "once")

RECURSIVE BumpAll(_, _)
BumpAll(c, its) ==
    IF its = <<>> THEN c ELSE BumpAll(Bump(c, Head(its).header), Tail(its))

\* The records a call on thread w scored, with the region of the call, the
\* Scorer whose ss was appended to and the lines the iteration appended.
ScoredBy(its, w, rb, re) ==
    { [header |-> its[k].header, rb |-> rb, re |-> re,
       w |-> w, scorer |-> Local(w),
       name_begin |-> its[k].name_begin,
       name_end |-> its[k].name_end,
       sequence_begin |-> its[k].sequence_begin,
       sequence_end |-> its[k].sequence_end,
       cursor |-> its[k].cursor,
       next |-> its[k].next,
       lines |-> its[k].lines] : k \in 1..Len(its) }

\* A score that takes the mutex for every line it appends.
ScoreLocksPerLine(w, lines) == [k \in 1..Len(lines) |-> w]

\* The acquisitions of output_mutex by a call of score on thread w that
\* appends lines: none, score never names output_mutex.
ScoreLocks(w, lines) == <<>>

\* scorer.score(region_begin, region_end) runs on worker thread w: it
\* returns, or it never does (an endless loop, or a read outside the buffer
\* that kills the process or hangs the thread).  The call touches only the
\* thread's own Scorer and the read-only buffer.
Score(w) ==
    /\ pc = "parallel_for"
    /\ wk[w].st = "score"
    /\ LET call == ScoreCall(fasta, wk[w].rb, wk[w].re, FALSE)
       IN  /\ ss' = [ss EXCEPT ![Local(w)] = @ \o LinesOf(call.its)]
           /\ scored' = scored \cup ScoredBy(call.its, w, wk[w].rb, wk[w].re)
           /\ calls' = BumpAll(calls, call.its)
           /\ locks' = locks \o ScoreLocks(w, LinesOf(call.its))
           /\ \/ /\ call.kind = "return"
                 /\ wk' = [wk EXCEPT ![w] = Idle]
                 /\ UNCHANGED pc
              \/ /\ call.kind = "loop"
                 /\ wk' = [wk EXCEPT ![w].st = "hang"]
                 /\ UNCHANGED pc
              \/ /\ call.kind = "ub"
                 /\ \E outcome \in UBOutcomes :
                       /\ wk' = [wk EXCEPT ![w].st = outcome]
                       /\ pc' = IF outcome = "crash" THEN "crashed" ELSE pc
    /\ UNCHANGED << file, inOK, outOK, fasta, output, writeLog, mutex, alive,
                    ranges, dispatched >>

\* A parallel_for that returns while ranges are still being scanned.
ParallelForCompleteEarly == ranges = {}

\* parallel_for returns once every range has been run.
ParallelForComplete ==
    /\ ranges = {}
    /\ \A w \in Workers : wk[w].st = "idle"

ParallelForReturn ==
    /\ pc = "parallel_for"
    /\ ParallelForComplete
    /\ pc' = "teardown"
    /\ UNCHANGED locks
    /\ UNCHANGED << file, inOK, outOK, fasta, output, writeLog, mutex, alive,
                    ss, ranges, wk, scored, calls, dispatched >>

\* A return that closes the output while Scorers are still to be destroyed.
ReturnBeforeDrains ==
    /\ pc = "teardown"
    /\ pc' = "done"
    /\ UNCHANGED << file, inOK, outOK, fasta, output, writeLog, mutex, alive,
                    ss, ranges, wk, scored, calls, dispatched, locks >>

\* process_fasta returns: scorers is destroyed first (every Scorer in it),
\* then output_mutex, then output.
Return ==
    /\ pc = "teardown"
    /\ alive = {}
    /\ pc' = "done"
    /\ UNCHANGED locks
    /\ UNCHANGED << file, inOK, outOK, fasta, output, writeLog, mutex, alive,
                    ss, ranges, wk, scored, calls, dispatched >>

Next ==
    \/ GetFileContents
    \/ OpenOutput
    \/ ConstructScorers
    \/ \E s \in ScorerIds : ScorerDtorLock(s)
    \/ \E s \in ScorerIds : ScorerDtorWrite(s)
    \/ ParallelFor
    \/ \E r \in ranges : Split(r)
    \/ \E w \in Workers : \E r \in ranges : ScoreFasta(w, r)
    \/ \E w \in Workers : Score(w)
    \/ ParallelForReturn
    \/ Return

Spec == Init /\ [][Next]_vars

\* The same program on files that include sizes beyond the int range.
InitBig == InitWith(Files \cup BigFiles)

SpecBig == InitBig /\ [][Next]_vars

\* ------------------------------------------------------ the serial path
\* The records of a file: a '>' that begins a line.
Headers(s) ==
    { p \in 0..(Len(s) - 1) : s[p + 1] = GT /\ (p = 0 \/ s[p] = NL) }

\* The next line break at or after pos, or the end of the buffer.
LineEnd(s, pos) ==
    LET hits == { i \in 0..(Len(s) - 1) : i >= pos /\ s[i + 1] = NL }
    IN  IF hits = {} THEN Len(s) ELSE Min(hits)

\* The name span of the record at p: the bytes strictly between '>' and the
\* following line break.
RecordNameEnd(s, p) == LineEnd(s, p + 1)

\* The sequence span: the bytes after the header's line break, up to the
\* next line break.
RecordSeqBegin(s, p) ==
    IF RecordNameEnd(s, p) < Len(s) THEN RecordNameEnd(s, p) + 1 ELSE Len(s)

RecordSeqEnd(s, p) == LineEnd(s, RecordSeqBegin(s, p))

RecordSeqLen(s, p) == RecordSeqEnd(s, p) - RecordSeqBegin(s, p)

\* process_fasta_serial: the records in file order, each scored against
\* every matrix in list order.
RECURSIVE SerialLines(_, _)
SerialLines(s, pos) ==
    LET rest == { p \in Headers(s) : p >= pos }
    IN  IF rest = {} THEN <<>>
        ELSE LET p == Min(rest)
             IN  MatrixLines(1, s, p + 1, RecordNameEnd(s, p),
                             RecordSeqBegin(s, p), RecordSeqEnd(s, p))
                 \o SerialLines(s, p + 1)

\* ------------------------------------------------------------------ claims
ToSet(q) == { q[i] : i \in DOMAIN q }

Count(q, x) == Cardinality({ i \in DOMAIN q : q[i] = x })

\* The match lines in the output file.
MatchLines == SelectSeq(output, LAMBDA l : l # HeaderLine)

\* A thread that never returns from score.
Stuck(w) == wk[w].st \in {"hang", "crash"}

\* C1: when the scan is over, every record (a '>' at position p) has been
\* scored exactly once, and by the call whose region holds p.
C1_EachRecordScoredOnceByItsRegion ==
    pc = "done" =>
        \A p \in Headers(fasta) :
            /\ p \in DOMAIN calls
            /\ calls[p] = "once"
            /\ \A e \in scored : e.header = p => e.rb <= p /\ p < e.re

\* C2: the match lines of the parallel path are, as a set, the match lines
\* of the serial path.
C2_ParallelEqualsSerial ==
    (pc = "done" /\ outOK) =>
        ToSet(MatchLines) = ToSet(SerialLines(fasta, 0))

\* The run in which the parallel_for never splits: one call of score over
\* the whole buffer.
WholeScan == ScoreCall(fasta, 0, Len(fasta), FALSE)

\* C3: the set of emitted match lines depends on the buffer and the matrices
\* only: every run emits the lines of the run that never splits.
C3_OutputIndependentOfSplitting ==
    (pc = "done" /\ outOK) =>
        /\ WholeScan.kind = "return"
        /\ ToSet(MatchLines) = ToSet(LinesOf(WholeScan.its))

\* The threads that ran a range.
Ran(w) == \E d \in dispatched : d.w = w

C4_State ==
    \A w \in Workers :
        /\ Count(writeLog, w) <= 1
        /\ (pc = "done" /\ Ran(w)) => Count(writeLog, w) = 1
        /\ (mutex = w \/ Count(writeLog, w) > 0) =>
              /\ ranges = {}
              /\ \A v \in Workers : wk[v].st = "idle"

C4_Step ==
    \A w \in Workers :
        Count(writeLog', w) > Count(writeLog, w) => mutex = w

\* C4: a worker's buffer is written to the output once, with the mutex held,
\* and only when no range is pending or being scanned.
C4_DrainOnceAfterScan == [](C4_State) /\ [][C4_Step]_vars

C4_Witness ==
    /\ pc = "done"
    /\ \A w \in Workers : Count(writeLog, w) = 1 /\ ss[w] # <<>>

\* The blocks of the scorers in the order of their writes.
RECURSIVE Blocks(_)
Blocks(log) ==
    IF log = <<>> THEN <<>>
    ELSE (IF Head(log) = "header" THEN <<>> ELSE ss[Head(log)])
         \o Blocks(Tail(log))

\* C5: the output is the header followed by one block per scorer, each block
\* the lines of that scorer in the order it appended them.
C5_OneBlockPerWorkerInAppendOrder ==
    (pc = "done" /\ outOK) => output = <<HeaderLine>> \o Blocks(writeLog)

C5_Witness ==
    /\ pc = "done"
    /\ outOK
    /\ \A w \in Workers : ss[w] # <<>>
    /\ \E w \in Workers : Len(ss[w]) >= 2 /\ ss[w][1] # ss[w][2]

\* C6: the header is written once, before any drain, and is the first line
\* of the output file.
C6_HeaderFirstAndOnce ==
    /\ writeLog # <<>> => writeLog[1] = "header"
    /\ Count(writeLog, "header") <= 1
    /\ outOK =>
          /\ Count(output, HeaderLine) <= 1
          /\ output # <<>> => output[1] = HeaderLine
          /\ pc \notin {"start", "loaded", "failed"} => output # <<>>

C6_Witness ==
    /\ pc = "done"
    /\ outOK
    /\ Len(output) >= 3
    /\ Len(writeLog) >= 4

\* The number of windows the claim gives a sequence of length L and a
\* matrix of width W.
WindowCount(L, W) == IF L >= W THEN L - W + 1 ELSE 0

\* C7: for every scored record and every matrix, the windows evaluated are
\* the L-W+1 windows of the record's sequence (none when L < W).
C7_WindowCoverage ==
    \A e \in scored : \A i \in 1..Len(Matrices) :
        Len(WindowBegins(Matrices[i], e.sequence_begin, e.sequence_end))
            = WindowCount(RecordSeqLen(fasta, e.header),
                          MatrixSize(Matrices[i]))

\* C8: a file whose last line has no line break is scanned to the end: no
\* call of score reads outside the buffer or fails to return.
C8_EndOfBufferTerminates ==
    (fasta # <<>> /\ fasta[Len(fasta)] # NL) =>
        \A w \in Workers : ~Stuck(w)

\* C9: when the input or the output cannot be opened, no range is handed to
\* a worker.
C9_OpenFailureStopsBeforeDispatch ==
    (~inOK \/ ~outOK) => dispatched = {}

\* The positions of a dispatched range.
Covered(d) == { i \in 0..(Len(fasta) - 1) : d.rb <= i /\ i < d.re }

\* C10: the ranges handed out are disjoint, cover [0, N) and, but for the
\* last, are no longer than grainsize.
C10_RangesPartitionBuffer ==
    pc \in {"teardown", "done"} =>
        /\ \A d \in dispatched : 0 <= d.rb /\ d.rb < d.re /\ d.re <= Len(fasta)
        /\ \A d1, d2 \in dispatched :
              (d1.rb # d2.rb \/ d1.re # d2.re) =>
                  (d1.re <= d2.rb \/ d2.re <= d1.rb)
        /\ UNION { Covered(d) : d \in dispatched } = 0..(Len(fasta) - 1)
        /\ \A d \in dispatched :
              d.re # Len(fasta) => d.re - d.rb <= grainsize

\* The p-value looked up for the window of matrix m that begins at b.
WindowPvalue(m, b) == m.pvalues[DetailScore(m, fasta, b, b + MatrixSize(m)) + 1]

\* The lines among q for the window of matrix m whose 1-based start is start.
LinesFor(q, m, start) ==
    { k \in DOMAIN q : q[k].pattern = m.name /\ q[k].start = start }

\* C11: a scored window has one line when its p-value is below 0.001 and
\* none otherwise (none at exactly 0.001); no line in any buffer or in the
\* output carries a p-value that is not below 0.001.
C11_LineIffBelowThreshold ==
    /\ \A e \in scored : \A i \in 1..Len(Matrices) :
          LET m == Matrices[i]
              begins == WindowBegins(m, e.sequence_begin, e.sequence_end)
          IN  \A k \in 1..Len(begins) :
                  Cardinality(LinesFor(e.lines, m,
                                       begins[k] - e.sequence_begin + 1))
                      = IF WindowPvalue(m, begins[k]) < PvalueThreshold
                        THEN 1 ELSE 0
    /\ \A s \in ScorerIds : \A k \in DOMAIN ss[s] :
          ss[s][k].pvalue < PvalueThreshold
    /\ \A k \in DOMAIN MatchLines : MatchLines[k].pvalue < PvalueThreshold

\* A scored record with a window at exactly 0.001 and a window below it, in
\* a finished run.
C11_Witness ==
    /\ pc = "done"
    /\ outOK
    /\ \E e \in scored : \E i \in 1..Len(Matrices) :
          LET m == Matrices[i]
              begins == WindowBegins(m, e.sequence_begin, e.sequence_end)
          IN  /\ \E k \in 1..Len(begins) :
                    WindowPvalue(m, begins[k]) = PvalueThreshold
              /\ \E k \in 1..Len(begins) :
                    /\ WindowPvalue(m, begins[k]) < PvalueThreshold
                    /\ \E j \in DOMAIN MatchLines :
                          /\ MatchLines[j].pattern = m.name
                          /\ MatchLines[j].start
                                = begins[k] - e.sequence_begin + 1

\* The matrix a line names.
MatrixOf(l) == CHOOSE m \in ToSet(Matrices) : m.name = l.pattern

\* C12: every line of a scored record has 1 <= start <= stop <= L and
\* stop - start + 1 = W, for W the width of its matrix and L the length of
\* the record's sequence span.
C12_StartStopWithinSequence ==
    \A e \in scored : \A k \in DOMAIN e.lines :
        LET l == e.lines[k]
            W == MatrixSize(MatrixOf(l))
            L == RecordSeqLen(fasta, e.header)
        IN  /\ 1 <= l.start
            /\ l.start <= l.stop
            /\ l.stop <= L
            /\ l.stop - l.start + 1 = W

\* A reverse-complement matrix of width 4 and a forward one.
ReverseMatrix4 ==
    [name |-> "r4", motif |-> <<"A", "A", "G", "G">>,
     pvalues |-> <<5000, 5000, 5000, 5000, 1>>, rc |-> TRUE]

ForwardMatrix4 == [ReverseMatrix4 EXCEPT !.rc = FALSE]

\* C13: a line of a reverse-complement matrix has strand '-' and shows the
\* window's bytes last to first, each complemented; a line of any other
\* matrix has strand '+' and shows the window's bytes unchanged.  AAGG is
\* rendered as CCTT.
C13_ReverseComplementRendering ==
    /\ \A e \in scored : \A j \in DOMAIN e.lines :
          LET l == e.lines[j]
              m == MatrixOf(l)
              W == MatrixSize(m)
              windowBegin == e.sequence_begin + l.start - 1
          IN  IF m.rc
              THEN /\ l.strand = "-"
                   /\ Len(l.matched) = W
                   /\ \A k \in 0..(W - 1) :
                         l.matched[k + 1]
                             = complement(fasta[(windowBegin + W - 1 - k) + 1])
              ELSE /\ l.strand = "+"
                   /\ l.matched
                         = SubSeq(fasta, windowBegin + 1, windowBegin + W)
    /\ Rendered(ReverseMatrix4, <<NL, "A", "A", "G", "G", NL>>, 1)
          = <<"C", "C", "T", "T">>
    /\ Rendered(ForwardMatrix4, <<NL, "A", "A", "G", "G", NL>>, 1)
          = <<"A", "A", "G", "G">>

\* A finished run whose output has the line of m3 for the bytes AC, shown as
\* GT on strand '-', and a line on strand '+'.
C13_Witness ==
    /\ pc = "done"
    /\ outOK
    /\ \E j \in DOMAIN MatchLines :
          /\ MatchLines[j].pattern = "m3"
          /\ MatchLines[j].strand = "-"
          /\ MatchLines[j].matched = <<"G", "T">>
    /\ \E j \in DOMAIN MatchLines : MatchLines[j].strand = "+"

\* A file without a '>' byte.
NoMarker(s) == \A i \in DOMAIN s : s[i] # GT

\* C14: on a file without '>' (the empty file too) every call of score
\* returns at once: no record is scored, no call is stuck, every buffer
\* stays empty and the finished output is the header line alone.
C14_NoMarkerHeaderOnly ==
    NoMarker(file) =>
        /\ scored = {}
        /\ \A w \in Workers : ~Stuck(w)
        /\ \A s \in ScorerIds : ss[s] = <<>>
        /\ (pc = "done" /\ outOK) => output = <<HeaderLine>>

\* A finished run on a file of sequence lines only, split into ranges that
\* both threads scanned.
C14_Witness ==
    /\ NoMarker(file)
    /\ pc = "done"
    /\ outOK
    /\ Cardinality(dispatched) >= 3
    /\ \A w \in Workers : Ran(w)
    /\ output = <<HeaderLine>>

\* The bytes of [b, e) that lie in the buffer.
SpanBytes(b, e) ==
    { fasta[i + 1] : i \in { j \in b..(e - 1) : j < Len(fasta) } }

\* C15: for every header found at p, the name span is the bytes between p
\* and the first line break after p, the sequence span the bytes from the
\* byte after that line break up to the next line break; neither span holds
\* a line break or a '>' of a following header, also when it is empty.
C15_SpansAreTheLines ==
    \A e \in scored :
        /\ e.name_begin = e.header + 1
        /\ e.name_end = RecordNameEnd(fasta, e.header)
        /\ e.sequence_begin = RecordSeqBegin(fasta, e.header)
        /\ e.sequence_end = RecordSeqEnd(fasta, e.header)
        /\ NL \notin SpanBytes(e.name_begin, e.name_end)
        /\ NL \notin SpanBytes(e.sequence_begin, e.sequence_end)

\* C16: every call of score returns: no call reads outside the buffer or
\* loops for ever, and in every iteration the cursor moves forward.
C16_EveryCallTerminates ==
    /\ pc # "crashed"
    /\ \A w \in Workers : ~Stuck(w)
    /\ \A e \in scored : e.next > e.cursor

\* The drains in the write log.
Drains == SelectSeq(writeLog, LAMBDA x : x # "header")

C17_State ==
    /\ mutex # "free" =>
          /\ mutex \in alive
          /\ Destroyable(mutex)
          /\ \A w \in Workers : wk[w].st # "score"
    /\ \A s \in ScorerIds : Count(locks, s) <= 1
    /\ Len(locks) = Len(Drains) + (IF mutex = "free" THEN 0 ELSE 1)
    /\ Len(locks) <= Cardinality(ScorerIds)

C17_Step ==
    /\ Len(locks') > Len(locks) =>
          /\ mutex = "free"
          /\ mutex' = locks'[Len(locks')]
          /\ Len(locks') = Len(locks) + 1
          /\ \A w \in Workers : wk[w].st # "score"
          /\ ss' = ss /\ output' = output
    /\ \A s \in ScorerIds :
          Count(writeLog', s) > Count(writeLog, s) =>
              mutex = s /\ mutex' = "free"
    /\ ss' # ss => mutex = "free" /\ mutex' = "free"

\* C17: output_mutex is taken only by a Scorer's destructor, once per
\* Scorer; whoever writes a buffer to the output holds it; it is never held
\* while a thread is inside score, and a call of score, however many lines
\* it appends, takes it not at all.
C17_MutexOnlyInDrain == [](C17_State) /\ [][C17_Step]_vars

\* A finished run in which a thread appended three lines and the mutex was
\* taken once per Scorer.
C17_Witness ==
    /\ pc = "done"
    /\ \E w \in Workers : Len(ss[w]) >= 3
    /\ Len(locks) = Cardinality({ s \in ScorerIds : Count(writeLog, s) = 1 })
    /\ Len(locks) >= 3

\* The lines the scored records say were appended to the buffer of s.
AppendedTo(s) ==
    UNION { ToSet(e.lines) : e \in { x \in scored : x.scorer = s } }

\* C18: a thread appends to one Scorer for the whole scan, its own
\* thread-local copy, and no two threads append to the same one; a range
\* handed to score_fasta is handed to one thread and is not handed out again.
C18_OneBufferPerThread ==
    /\ \A e1, e2 \in scored : (e1.scorer = e2.scorer) <=> (e1.w = e2.w)
    /\ \A e \in scored :
          /\ e.scorer \in Workers
          /\ \E d \in dispatched : d.w = e.w /\ d.rb = e.rb /\ d.re = e.re
    /\ \A s \in ScorerIds :
          ToSet(ss[s]) = IF s \in Workers THEN AppendedTo(s) ELSE {}
    /\ \A d \in dispatched : <<d.rb, d.re>> \notin ranges
    /\ \A d1, d2 \in dispatched :
          (d1.rb = d2.rb /\ d1.re = d2.re) => d1.w = d2.w
    /\ pc = "parallel_for" =>
          alive = {"exemplar"} \cup { w \in Workers : Ran(w) }

\* A finished run in which each thread scanned a range with a record, one
\* of them more than one range, and each buffer holds its thread's lines.
C18_Witness ==
    /\ pc = "done"
    /\ \A w \in Workers : AppendedTo(w) # {} /\ ToSet(ss[w]) = AppendedTo(w)
    /\ \E w \in Workers :
          Cardinality({ d \in dispatched : d.w = w }) >= 2

\* The place of a line's matrix in the matrix list.
MatrixIndex(l) == CHOOSE i \in 1..Len(Matrices) : Matrices[i].name = l.pattern

\* The lines of a scored record are one run of lines in its Scorer's ss.
InBuffer(e) ==
    \E o \in 0..(Len(ss[e.scorer]) - Len(e.lines)) :
        SubSeq(ss[e.scorer], o + 1, o + Len(e.lines)) = e.lines

\* C19 as claimed: the lines of one record are appended in window order,
\* and for the same window in matrix-list order.
C19_WindowThenMatrixOrder ==
    \A e \in scored : \A j, k \in DOMAIN e.lines :
        j < k =>
            \/ e.lines[j].start < e.lines[k].start
            \/ /\ e.lines[j].start = e.lines[k].start
               /\ MatrixIndex(e.lines[j]) < MatrixIndex(e.lines[k])

\* C19 as amended: the lines of one record are appended in matrix-list
\* order, and for the same matrix in window order.
C19_MatrixThenWindowOrder ==
    \A e \in scored :
        /\ InBuffer(e)
        /\ \A j, k \in DOMAIN e.lines :
              j < k =>
                  \/ MatrixIndex(e.lines[j]) < MatrixIndex(e.lines[k])
                  \/ /\ MatrixIndex(e.lines[j]) = MatrixIndex(e.lines[k])
                     /\ e.lines[j].start < e.lines[k].start

\* A finished run with a record whose line of an earlier matrix for a later
\* window precedes the line of a later matrix for an earlier window.
C19_Witness ==
    /\ pc = "done"
    /\ \E e \in scored : \E j, k \in DOMAIN e.lines :
          /\ j < k
          /\ MatrixIndex(e.lines[j]) < MatrixIndex(e.lines[k])
          /\ e.lines[j].start > e.lines[k].start
          /\ InBuffer(e)

\* How often the line x was appended by the scored records of S.
RECURSIVE Appended(_, _)
Appended(S, x) ==
    IF S = {} THEN 0
    ELSE LET e == CHOOSE y \in S : TRUE
         IN  Count(e.lines, x) + Appended(S \ {e}, x)

\* The lines that were appended or are in the output.
AllLines == UNION { ToSet(e.lines) : e \in scored } \cup ToSet(MatchLines)

\* The Scorer objects of the run.
Constructed ==
    {"temp", "exemplar"} \cup { Local(w) : w \in { v \in Workers : Ran(v) } }

\* C20: the temporary, the exemplar and a thread's copy hold nothing but
\* what score appended to them; once parallel_for has returned every buffer
\* holds each line as often as it was appended, and when process_fasta has
\* returned every Scorer has been drained once and the output holds each
\* line as often as it was appended.
C20_NoLineLostOrDuplicated ==
    /\ ss["temp"] = <<>> /\ ss["exemplar"] = <<>>
    /\ \A w \in Workers : ~Ran(w) => ss[w] = <<>>
    /\ pc \in {"teardown", "done"} =>
          \A s \in ScorerIds : \A x \in AllLines :
              Count(ss[s], x) = Appended({ e \in scored : e.scorer = s }, x)
    /\ pc = "done" =>
          /\ alive = {}
          /\ mutex = "free"
          /\ \A s \in ScorerIds :
                Count(writeLog, s) = IF s \in Constructed THEN 1 ELSE 0
          /\ outOK => \A x \in AllLines :
                          Count(MatchLines, x) = Appended(scored, x)

\* A finished run in which both threads appended lines, six in all.
C20_Witness ==
    /\ pc = "done"
    /\ outOK
    /\ \A w \in Workers : ss[w] # <<>>
    /\ Len(MatchLines) >= 6
    /\ \A x \in AllLines : Appended(scored, x) = 1

=============================================================================
